---- MODULE Spec2Model ----
(***************************************************************************)
(* Model of the Kakarot RPC translation layer:                             *)
(*   - eth_provider/starknet/kakarot_core.rs : lazily initialised          *)
(*     configuration constants, starknet_address, to_starknet_transaction  *)
(*   - eth_provider/contracts/erc20.rs       : EthereumErc20::balance_of   *)
(*   - test_utils/hive/mod.rs                : try_into_genesis_json       *)
(*                                                                         *)
(* Unsigned integers of every width (u8, u64, u128, U256, FieldElement)    *)
(* are written as their canonical big-endian base-256 digit sequence: no   *)
(* leading zero byte, zero is << >>.  A width is applied where the code    *)
(* applies one (u64 arithmetic, to_be_bytes::<32>, try_from_be_slice).     *)
(***************************************************************************)
EXTENDS Integers, Sequences, FiniteSets, TLC

VARIABLES
    env,              \* process environment: variable name -> "missing" or its text
    overflow_checks,  \* build profile: TRUE = arithmetic overflow panics, FALSE = wraps
    cells,            \* lazy_static cells of kakarot_core.rs
    phase,            \* "startup" | "serving" | "genesis"
    served,           \* number of requests handled since startup
    req,              \* the request handled last
    res,              \* its outcome
    calls,            \* requests the last handler sent to the call capability
    gen               \* state of the genesis materializer

vars == <<env, overflow_checks, cells, phase, served, req, res, calls, gen>>

-----------------------------------------------------------------------------
(* Big-endian base-256 numbers *)

Zeros(n) == [i \in 1..n |-> 0]

Ones(n) == [i \in 1..n |-> 255]

\* b without its leading zero bytes
Trim(b) ==
    IF \A i \in 1..Len(b) : b[i] = 0 THEN << >>
    ELSE SubSeq(b, CHOOSE i \in 1..Len(b) : b[i] # 0 /\ \A j \in 1..(i - 1) : b[j] = 0, Len(b))

Front(b) == SubSeq(b, 1, Len(b) - 1)

\* the last n bytes of b, zero-extended on the left when b is shorter
Pad(b, n) == IF Len(b) >= n THEN SubSeq(b, Len(b) - n + 1, Len(b)) ELSE Zeros(n - Len(b)) \o b

RECURSIVE NatToBytes(_)
NatToBytes(n) == IF n = 0 THEN << >> ELSE NatToBytes(n \div 256) \o <<n % 256>>

\* a * k + c for a small factor k and a small addend c
RECURSIVE MulAdd(_, _, _)
MulAdd(a, k, c) ==
    IF a = << >> THEN NatToBytes(c)
    ELSE LET t == a[Len(a)] * k + c
         IN  Trim(MulAdd(Front(a), k, t \div 256) \o <<t % 256>>)

RECURSIVE AddCarry(_, _, _)
AddCarry(a, b, c) ==
    IF a = << >> /\ b = << >> THEN NatToBytes(c)
    ELSE LET x == IF a = << >> THEN 0 ELSE a[Len(a)]
             y == IF b = << >> THEN 0 ELSE b[Len(b)]
             t == x + y + c
         IN  AddCarry(IF a = << >> THEN a ELSE Front(a),
                      IF b = << >> THEN b ELSE Front(b), t \div 256) \o <<t % 256>>

Add(a, b) == Trim(AddCarry(a, b, 0))

\* a * 256^n
ShlBytes(a, n) == IF a = << >> THEN << >> ELSE a \o Zeros(n)

U64Bytes == 8
U128Bytes == 16
U256Bytes == 32

FitsIn(a, n) == Len(Trim(a)) <= n
Wrap(a, n) == Trim(Pad(a, n))

U128_MAX == Ones(U128Bytes)
U256_MAX == Ones(U256Bytes)


\* a < b on canonical numbers
RECURSIVE LexLess(_, _)
LexLess(a, b) ==
    IF a = << >> THEN FALSE
    ELSE IF a[1] # b[1] THEN a[1] < b[1] ELSE LexLess(Tail(a), Tail(b))

Less(a, b) == IF Len(a) # Len(b) THEN Len(a) < Len(b) ELSE LexLess(a, b)

\* the Starknet field prime 2^251 + 17 * 2^192 + 1
FIELD_PRIME == <<8, 0, 0, 0, 0, 0, 0, 17>> \o Zeros(23) \o <<1>>

-----------------------------------------------------------------------------
(* Configuration constants: kakarot_core.rs, lazy_static! *)

ConfigVars == {"KAKAROT_ADDRESS", "PROXY_ACCOUNT_CLASS_HASH",
               "EXTERNALLY_OWNED_ACCOUNT_CLASS_HASH", "CONTRACT_ACCOUNT_CLASS_HASH"}

LazyCells == ConfigVars \cup {"ETH_SEND_TRANSACTION"}

HexChars == <<"0", "1", "2", "3", "4", "5", "6", "7", "8", "9", "a", "b", "c", "d", "e", "f">>

DigitOf(ch, base) ==
    IF \E i \in 1..base : HexChars[i] = ch
    THEN (CHOOSE i \in 1..base : HexChars[i] = ch) - 1
    ELSE -1

\* the digits of text in the given base, most significant first; ok = FALSE on a
\* character that is no digit of the base
RECURSIVE ParseDigits(_, _, _)
ParseDigits(text, base, acc) ==
    IF text = << >> THEN [ok |-> TRUE, v |-> acc]
    ELSE LET d == DigitOf(text[1], base)
         IN  IF d < 0 THEN [ok |-> FALSE, v |-> << >>]
             ELSE ParseDigits(Tail(text), base, MulAdd(acc, base, d))

HexDigitsMax == 64

\* FieldElement::from_str: "0x" prefix selects hexadecimal (at most 64 digits),
\* anything else is read as decimal; the value must be below the field prime
FieldElementFromStr(text) ==
    LET hex == Len(text) >= 2 /\ text[1] = "0" /\ text[2] = "x"
        digits == IF hex THEN SubSeq(text, 3, Len(text)) ELSE text
        InRange(p) == IF p.ok /\ ~Less(p.v, FIELD_PRIME) THEN [ok |-> FALSE, v |-> << >>] ELSE p
    IN  IF (hex /\ Len(digits) > HexDigitsMax) \/ (~hex /\ digits = << >>) THEN [ok |-> FALSE, v |-> << >>]
        ELSE InRange(ParseDigits(digits, IF hex THEN 16 ELSE 10, << >>))

Missing == <<"<unset>">>

\* env_var_to_field_element: panics when the variable is unset or does not parse
env_var_to_field_element(e, var_name) ==
    IF e[var_name] = Missing THEN [ok |-> FALSE, v |-> << >>, why |-> "Missing environment variable"]
    ELSE LET Unwrap(p) == IF p.ok THEN [ok |-> TRUE, v |-> p.v, why |-> ""]
                           ELSE [ok |-> FALSE, v |-> << >>, why |-> "Invalid hex string"]
         IN  Unwrap(FieldElementFromStr(e[var_name]))

\* selector!("eth_send_transaction"): a compile-time hash of the entrypoint name
Selector(name) == [selector |-> name]

Uninit == [st |-> "uninit", v |-> << >>, why |-> ""]

\* first dereference of a lazy_static cell runs its initialiser; a panicking
\* initialiser poisons the cell, and every later dereference panics again
Force(c, e, name) ==
    IF c[name].st # "uninit" THEN c
    ELSE IF name = "ETH_SEND_TRANSACTION"
         THEN [c EXCEPT ![name] = [st |-> "ready", v |-> Selector("eth_send_transaction"), why |-> ""]]
         ELSE LET Store(r) ==
                      [c EXCEPT ![name] = [st |-> IF r.ok THEN "ready" ELSE "poisoned", v |-> r.v, why |-> r.why]]
              IN  Store(env_var_to_field_element(e, name))

Panic(why, where) == [kind |-> "panic", why |-> why, at |-> where]

\* get_contract_address(salt, class_hash, constructor_calldata, deployer_address):
\* a collision-free hash of its arguments
get_contract_address(salt, class_hash, constructor_calldata, deployer_address) ==
    [salt |-> salt, class_hash |-> class_hash, calldata |-> constructor_calldata,
     deployer |-> deployer_address]

\* Address (20 bytes) -> Felt252Wrapper -> FieldElement
AddressToFelt(address) == Trim(address)

\* starknet_address: dereferences PROXY_ACCOUNT_CLASS_HASH, then KAKAROT_ADDRESS
starknet_address(c, e, address) ==
    LET WithDeployer(c2) ==
            IF c2["KAKAROT_ADDRESS"].st # "ready"
            THEN [cells |-> c2, out |-> Panic(c2["KAKAROT_ADDRESS"].why, "KAKAROT_ADDRESS")]
            ELSE [cells |-> c2,
                  out |-> [kind |-> "ok",
                           v |-> get_contract_address(AddressToFelt(address),
                                                      c2["PROXY_ACCOUNT_CLASS_HASH"].v, << >>,
                                                      c2["KAKAROT_ADDRESS"].v)]]
        WithClassHash(c1) ==
            IF c1["PROXY_ACCOUNT_CLASS_HASH"].st # "ready"
            THEN [cells |-> c1, out |-> Panic(c1["PROXY_ACCOUNT_CLASS_HASH"].why, "PROXY_ACCOUNT_CLASS_HASH")]
            ELSE WithDeployer(Force(c1, e, "KAKAROT_ADDRESS"))
    IN  WithClassHash(Force(c, e, "PROXY_ACCOUNT_CLASS_HASH"))

-----------------------------------------------------------------------------
(* RLP, as used by Transaction::encode_without_signature *)

RlpShortMax == 55

\* header of a string (offset 128) or of a list (offset 192) whose payload has n bytes
RlpHeader(offset, n) ==
    IF n <= RlpShortMax THEN <<offset + n>>
    ELSE LET Long(l) == <<offset + RlpShortMax + Len(l)>> \o l IN Long(NatToBytes(n))

\* a byte string
RlpBytes(b) == IF Len(b) = 1 /\ b[1] < 128 THEN b ELSE RlpHeader(128, Len(b)) \o b

\* an unsigned integer: its minimal big-endian bytes as a string
RlpUint(x) == RlpBytes(Trim(x))

RECURSIVE RlpConcat(_)
RlpConcat(items) == IF items = << >> THEN << >> ELSE items[1] \o RlpConcat(Tail(items))

RlpList(items) == LET Framed(payload) == RlpHeader(192, Len(payload)) \o payload IN Framed(RlpConcat(items))

\* TransactionKind: Create encodes as the empty string, Call(to) as the 20 bytes
RlpKind(to) == IF to.create THEN <<128>> ELSE RlpBytes(to.address)

RECURSIVE RlpEach(_)
RlpEach(strings) == IF strings = << >> THEN << >> ELSE <<RlpBytes(strings[1])>> \o RlpEach(Tail(strings))

RECURSIVE RlpAccessItems(_)
RlpAccessItems(al) ==
    IF al = << >> THEN << >>
    ELSE <<RlpList(<<RlpBytes(al[1].address), RlpList(RlpEach(al[1].storage_keys))>>)>>
         \o RlpAccessItems(Tail(al))

RlpAccessList(al) == RlpList(RlpAccessItems(al))

\* Transaction::encode_without_signature
encode_without_signature(t) ==
    IF t.variant = "Legacy" THEN
        RlpList(<<RlpUint(t.nonce), RlpUint(t.gas_price), RlpUint(t.gas_limit), RlpKind(t.to),
                  RlpUint(t.value), RlpBytes(t.input)>>
                \o (IF t.chain_id.some THEN <<RlpUint(t.chain_id.v), <<128>>, <<128>> >> ELSE << >>))
    ELSE IF t.variant = "Eip2930" THEN
        <<1>> \o RlpList(<<RlpUint(t.chain_id.v), RlpUint(t.nonce), RlpUint(t.gas_price),
                           RlpUint(t.gas_limit), RlpKind(t.to), RlpUint(t.value),
                           RlpBytes(t.input), RlpAccessList(t.access_list)>>)
    ELSE
        <<2>> \o RlpList(<<RlpUint(t.chain_id.v), RlpUint(t.nonce), RlpUint(t.max_priority_fee_per_gas),
                           RlpUint(t.gas_price), RlpUint(t.gas_limit), RlpKind(t.to),
                           RlpUint(t.value), RlpBytes(t.input), RlpAccessList(t.access_list)>>)

-----------------------------------------------------------------------------
(* Transaction translator: kakarot_core.rs, to_starknet_transaction *)

\* split_u256: [low 128 bits, high 128 bits], each widened to a field element
split_u256(value) ==
    LET b == Pad(value, U256Bytes)
    IN  <<Trim(SubSeq(b, U128Bytes + 1, U256Bytes)), Trim(SubSeq(b, 1, U128Bytes))>>

\* one u64 operation: the exact result x, as the build produces it
U64Op(x, oc) ==
    IF FitsIn(x, U64Bytes) THEN [panic |-> FALSE, v |-> x]
    ELSE IF oc THEN [panic |-> TRUE, v |-> << >>]
    ELSE [panic |-> FALSE, v |-> Wrap(x, U64Bytes)]

LegacyVOffset == 35

\* Signature::v(Some(chain_id)): odd_y_parity as u64 + chain_id * 2 + 35, in u64
SignatureV(odd_y_parity, chain_id, oc) ==
    LET Abort == [panic |-> TRUE, v |-> << >>]
        PlusOffset(a) == IF a.panic THEN Abort ELSE U64Op(Add(a.v, NatToBytes(LegacyVOffset)), oc)
        PlusParity(m) == IF m.panic THEN Abort
                         ELSE PlusOffset(U64Op(Add(NatToBytes(odd_y_parity), m.v), oc))
    IN  PlusParity(U64Op(MulAdd(chain_id, 2, 0), oc))

\* TxSignature with the limbs of r and s pushed high first
TxSignatureHighFirst(t, chain_id, oc) ==
    LET HighFirst(r, s) == <<r[2], r[1], s[2], s[1]>>
        Push(rs, v) == IF v.panic THEN [panic |-> TRUE, v |-> << >>]
                       ELSE [panic |-> FALSE, v |-> Append(rs, v.v)]
    IN  Push(HighFirst(split_u256(t.signature.r), split_u256(t.signature.s)),
             IF t.variant = "Legacy" THEN SignatureV(t.signature.odd_y_parity, chain_id, oc)
             ELSE [panic |-> FALSE, v |-> NatToBytes(t.signature.odd_y_parity)])

\* lines 79-94: the signature vector
TxSignature(t, chain_id, oc) ==
    LET Push(rs, v) == IF v.panic THEN [panic |-> TRUE, v |-> << >>]
                       ELSE [panic |-> FALSE, v |-> Append(rs, v.v)]
    IN  Push(split_u256(t.signature.r) \o split_u256(t.signature.s),
             IF t.variant = "Legacy" THEN SignatureV(t.signature.odd_y_parity, chain_id, oc)
             ELSE [panic |-> FALSE, v |-> NatToBytes(t.signature.odd_y_parity)])

\* FieldElement::from(u8), byte by byte
BytesToFelts(b) == [i \in 1..Len(b) |-> NatToBytes(b[i])]

\* ExecuteCalldata announcing the capacity (6 + L) as the calldata length
ExecuteCalldataCapacityAsLen(kakarot_address, selector, signed_data) ==
    <<NatToBytes(1), kakarot_address, selector, NatToBytes(0),
      NatToBytes(Len(signed_data)), NatToBytes(6 + Len(signed_data))>>
    \o BytesToFelts(signed_data)

\* lines 103-113: the execute calldata
ExecuteCalldata(kakarot_address, selector, signed_data) ==
    <<NatToBytes(1), kakarot_address, selector, NatToBytes(0),
      NatToBytes(Len(signed_data)), NatToBytes(Len(signed_data))>>
    \o BytesToFelts(signed_data)

to_starknet_transaction(c, e, oc, t, chain_id, signer, max_fee) ==
    LET Emit(sa, sig, c3) ==
            [cells |-> c3,
             out |-> [kind |-> "ok",
                      v |-> [max_fee |-> max_fee,
                             signature |-> sig.v,
                             nonce |-> t.nonce,
                             sender_address |-> sa.out.v,
                             calldata |-> ExecuteCalldata(c3["KAKAROT_ADDRESS"].v,
                                                          c3["ETH_SEND_TRANSACTION"].v,
                                                          encode_without_signature(t)),
                             is_query |-> FALSE]]]
        Sign(sa, sig) ==
            IF sig.panic THEN [cells |-> sa.cells, out |-> Panic("attempt to add with overflow", "v")]
            ELSE Emit(sa, sig, Force(sa.cells, e, "ETH_SEND_TRANSACTION"))
        From(sa) == IF sa.out.kind = "panic" THEN sa ELSE Sign(sa, TxSignature(t, chain_id, oc))
    IN  From(starknet_address(c, e, signer))

-----------------------------------------------------------------------------
(* Generic call abstraction: erc20.rs, EthereumErc20::balance_of *)

\* first four bytes of keccak256("balanceOf(address)")
BalanceOfSelector == <<112, 160, 130, 49>>

AddressBytes == 20
AbiWordBytes == 32

\* IERC20Calls::BalanceOf(..).encode(): selector, then the address as one ABI word
EncodeBalanceOf(account) == BalanceOfSelector \o Pad(account, AbiWordBytes)

GasCeiling == 1000000

\* CallRequest sent from the ERC20 contract instead of the zero address
CallRequestFromContract(to, calldata) ==
    [from |-> to, to |-> to, gas_price |-> << >>, gas |-> NatToBytes(GasCeiling),
     value |-> << >>, input |-> calldata, data |-> "None", others |-> "None"]

\* TransactionRequest with the fields balance_of sets; every other field is None
CallRequest(to, calldata) ==
    [from |-> Zeros(AddressBytes), to |-> to, gas_price |-> << >>, gas |-> NatToBytes(GasCeiling),
     value |-> << >>, input |-> calldata, data |-> "None", others |-> "None"]

\* U256::try_from_be_slice: leading zero bytes are ignored, the slice may have any
\* length, None when the number does not fit 256 bits
try_from_be_slice(bytes) ==
    IF FitsIn(bytes, U256Bytes) THEN [some |-> TRUE, v |-> Trim(bytes)] ELSE [some |-> FALSE, v |-> << >>]

\* response: what the call capability answers to the one call that is made
balance_of(self_address, evm_address, block_id, response) ==
    LET Decode(balance) == IF ~balance.some THEN [kind |-> "ConversionError"]
                           ELSE [kind |-> "ok", v |-> balance.v]
    IN  [calls |-> <<[request |-> CallRequest(self_address, EncodeBalanceOf(evm_address)),
                      block_id |-> block_id]>>,
         out |-> IF response.err THEN [kind |-> "UpstreamCallError"]
                 ELSE Decode(try_from_be_slice(response.bytes))]

-----------------------------------------------------------------------------
(* Inputs *)

MaxInput == 2

AddrA == Zeros(AddressBytes - 1) \o <<1>>
AddrB == <<222, 173>> \o Zeros(AddressBytes - 3) \o <<190>>
Addresses == {AddrA, AddrB}

EnvTexts == [ KAKAROT_ADDRESS |-> {Missing, <<"0", "x", "1", "f">>, <<"0", "x", "z", "z">>},
              PROXY_ACCOUNT_CLASS_HASH |-> {Missing, <<"4", "2">>, <<"k">>},
              EXTERNALLY_OWNED_ACCOUNT_CLASS_HASH |-> {Missing, <<"0", "x", "e", "0">>},
              CONTRACT_ACCOUNT_CLASS_HASH |-> {<<"0", "x", "c", "a">>, <<"0", "x">> \o [i \in 1..65 |-> "f"]} ]

Envs == {e \in [ConfigVars -> UNION {EnvTexts[n] : n \in ConfigVars}] : \A n \in ConfigVars : e[n] \in EnvTexts[n]}

InputByte(i) == (i * 97) % 256
TxInputs == {[i \in 1..n |-> InputByte(i)] : n \in 0..MaxInput}

Create == [create |-> TRUE, address |-> << >>]
Call(a) == [create |-> FALSE, address |-> a]

TxShapes == { [to |-> Create, value |-> << >>, access_list |-> << >>],
              [to |-> Call(AddrB), value |-> U256_MAX,
               access_list |-> <<[address |-> AddrA, storage_keys |-> <<Zeros(U256Bytes)>>]>>] }

TxSignatures ==
    { [r |-> rs[1], s |-> rs[2], odd_y_parity |-> p] :
        rs \in { <<NatToBytes(1), NatToBytes(2)>>,
                 <<U256_MAX, U128_MAX>>,
                 <<<<1>> \o Zeros(U128Bytes), <<127>> \o Ones(U256Bytes - 1)>> },
        p \in {0, 1} }

NoChain == [some |-> FALSE, v |-> << >>]
SomeChain(c) == [some |-> TRUE, v |-> c]

Transactions ==
    { [variant |-> k[1], chain_id |-> k[2], nonce |-> <<1, 0>>, gas_price |-> <<59, 154, 202, 0>>,
       max_priority_fee_per_gas |-> << >>, gas_limit |-> <<82, 8>>, to |-> sh.to, value |-> sh.value,
       input |-> i, access_list |-> IF k[1] = "Legacy" THEN << >> ELSE sh.access_list, signature |-> sg] :
        k \in { <<"Legacy", NoChain>>, <<"Legacy", SomeChain(<<1>>)>>,
                <<"Eip2930", SomeChain(<<1>>)>>, <<"Eip1559", SomeChain(<<1>>)>> },
        sh \in TxShapes, i \in TxInputs, sg \in TxSignatures }

\* 1, 2^63 - 18 (the sum overflows for parity 1 only) and 2^63 (the product overflows)
ChainIds == { <<1>>, <<127>> \o Ones(U64Bytes - 2) \o <<238>>, <<128>> \o Zeros(U64Bytes - 1) }

MaxFees == { Ones(U64Bytes) }

BlockIds == { "latest", "earliest" }

Responses ==
    { [err |-> TRUE, bytes |-> << >>] } \cup
    { [err |-> FALSE, bytes |-> b] :
        b \in { << >>, <<5>>, Zeros(U256Bytes - 1), Zeros(U256Bytes - 1) \o <<9>>, U256_MAX,
                <<0>> \o U256_MAX, <<1>> \o Zeros(U256Bytes) } }

NoRequest == [op |-> "none"]
NoResult == [kind |-> "none"]
GenIdle == [pc |-> "idle"]

-----------------------------------------------------------------------------
(* The process *)

Init ==
    /\ env \in Envs
    /\ overflow_checks \in BOOLEAN
    /\ cells = [n \in LazyCells |-> Uninit]
    /\ phase = "startup"
    /\ served = 0
    /\ req = NoRequest
    /\ res = NoResult
    /\ calls = << >>
    /\ gen = GenIdle

\* start_kakarot_rpc_server: builds the RPC module and runs the server; the
\* configuration constants of kakarot_core.rs are not touched
Startup ==
    /\ phase = "startup"
    /\ \E rpc_ok \in BOOLEAN : phase' = IF rpc_ok THEN "serving" ELSE "failed"
    /\ UNCHANGED <<env, overflow_checks, cells, served, req, res, calls, gen>>

StarknetAddress ==
    /\ phase = "serving"
    /\ \E a \in Addresses : \E r \in {starknet_address(cells, env, a)} :
            /\ req' = [op |-> "starknet_address", address |-> a]
            /\ cells' = r.cells
            /\ res' = r.out
    /\ served' = 1
    /\ calls' = << >>
    /\ UNCHANGED <<env, overflow_checks, phase, gen>>

\* the requests a running process is offered: one body per variant
ServedTransactions ==
    { t \in Transactions : t.input = << >> /\ t.to.create /\ t.signature.r = NatToBytes(1) /\ t.signature.odd_y_parity = 1 }

ToStarknetTransaction ==
    /\ phase = "serving"
    /\ \E t \in ServedTransactions, c \in ChainIds, a \in {AddrA}, f \in MaxFees :
        \E r \in {to_starknet_transaction(cells, env, overflow_checks, t, c, a, f)} :
            /\ req' = [op |-> "to_starknet_transaction", transaction |-> t, chain_id |-> c,
                       signer |-> a, max_fee |-> f]
            /\ cells' = r.cells
            /\ res' = r.out
    /\ served' = 1
    /\ calls' = << >>
    /\ UNCHANGED <<env, overflow_checks, phase, gen>>

BalanceOf ==
    /\ phase = "serving"
    /\ \E a \in Addresses, b \in BlockIds, resp \in Responses :
        \E r \in {balance_of(AddrB, a, b, resp)} :
            /\ req' = [op |-> "balance_of", self_address |-> AddrB, evm_address |-> a,
                       block_id |-> b, response |-> resp]
            /\ res' = r.out
            /\ calls' = r.calls
    /\ served' = 1
    /\ UNCHANGED <<env, overflow_checks, cells, phase, gen>>

Next == Startup \/ StarknetAddress \/ ToStarknetTransaction \/ BalanceOf

Spec == Init /\ [][Next]_vars

-----------------------------------------------------------------------------
(* The transaction translator on its own: one request, drawn from every
   transaction, chain id, signer and fee bound, handed to a serving process *)

TxEnvs == { e \in Envs : e["EXTERNALLY_OWNED_ACCOUNT_CLASS_HASH"] # Missing
                          /\ Len(e["CONTRACT_ACCOUNT_CLASS_HASH"]) <= HexDigitsMax }

InitTx ==
    /\ env \in TxEnvs
    /\ overflow_checks \in BOOLEAN
    /\ cells = [n \in LazyCells |-> Uninit]
    /\ phase = "serving"
    /\ served = 0
    /\ req \in { [op |-> "to_starknet_transaction", transaction |-> t, chain_id |-> c,
                  signer |-> a, max_fee |-> f] :
                    t \in Transactions, c \in ChainIds, a \in Addresses, f \in MaxFees }
    /\ res = NoResult
    /\ calls = << >>
    /\ gen = GenIdle

TranslatePending ==
    /\ phase = "serving"
    /\ req.op = "to_starknet_transaction"
    /\ res = NoResult
    /\ \E r \in {to_starknet_transaction(cells, env, overflow_checks, req.transaction, req.chain_id,
                                          req.signer, req.max_fee)} :
           /\ cells' = r.cells
           /\ res' = r.out
    /\ served' = 1
    /\ UNCHANGED <<env, overflow_checks, phase, req, calls, gen>>

NextTx == TranslatePending

SpecTx == InitTx /\ [][NextTx]_vars

-----------------------------------------------------------------------------
(* Genesis state materializer: test_utils/hive/mod.rs, try_into_genesis_json *)

\* HashMap as a function; extend and insert overwrite the keys they meet
EmptyMap == << >>
Extend(m, n) == [k \in DOMAIN m \cup DOMAIN n |-> IF k \in DOMAIN n THEN n[k] ELSE m[k]]
Insert(m, k, v) == [x \in DOMAIN m \cup {k} |-> IF x = k THEN v ELSE m[x]]

\* Vec<(key, value)>::into_iter().collect::<HashMap>(): the last pair of a key wins
CollectPairs(pairs) ==
    [k \in {pairs[i][1] : i \in 1..Len(pairs)} |->
        pairs[CHOOSE i \in 1..Len(pairs) :
                pairs[i][1] = k /\ \A j \in (i + 1)..Len(pairs) : pairs[j][1] # k][2]]

None == [some |-> FALSE, m |-> EmptyMap]
Some(m) == [some |-> TRUE, m |-> m]

\* get_storage_var_address(name, args): a collision-free hash; key + 1 is the next slot
get_storage_var_address(name, args) == [var |-> name, args |-> args, off |-> 0]
NextSlot(key) == [key EXCEPT !.off = @ + 1]

\* KatanaGenesisBuilder::compute_starknet_address: the proxy deployed by the
\* coordinator with the EVM address as salt
compute_starknet_address(b, evm_address) ==
    get_contract_address(evm_address, b.proxy_class_hash, << >>, b.kakarot_address)

RECURSIVE FlatMap(_, _)
FlatMap(Op(_), items) == IF items = << >> THEN << >> ELSE Op(items[1]) \o FlatMap(Op, Tail(items))

\* KakarotAccount::new(address, code, nonce, storage): the account type and the
\* low-level storage: every EVM pair (k, v) becomes the two slots of storage_(split(k))
\* holding split(v)
KakarotAccountNew(address, code, nonce, storage) ==
    LET Slots(kv) ==
            LET low_key == get_storage_var_address("storage_", split_u256(kv[1]))
                values == split_u256(kv[2])
            IN  << <<low_key, values[1]>>, <<NextSlot(low_key), values[2]>> >>
        fixed == << <<get_storage_var_address("evm_address", << >>), AddressToFelt(address)>>,
                    <<get_storage_var_address("is_initialized_", << >>), NatToBytes(1)>>,
                    <<get_storage_var_address("bytecode_len_", << >>), NatToBytes(Len(code))>> >>
        is_eoa == code = << >> /\ storage = << >>
    IN  [account_type |-> IF is_eoa THEN "EOA" ELSE "Contract",
         storage |-> fixed
                     \o (IF is_eoa THEN << >> ELSE << <<get_storage_var_address("nonce", << >>), nonce>> >>)
                     \o FlatMap(Slots, storage)]

\* the layout KakarotAccount::new derives for one allocation entry.  The layout is opaque
\* to the materializer: info.layout holds the slots it has beside the ones above
DerivedAccount(address, info) ==
    LET WithLayout(account) == [account EXCEPT !.storage = @ \o info.layout]
    IN  WithLayout(KakarotAccountNew(address, info.code, << >>, info.storage))

\* AccountStoragePairs keeping the low slot of every pair of slots only
AccountStoragePairsLowOnly(kakarot_account) ==
    LET st == kakarot_account.storage
        keep == {i \in 1..Len(st) : st[i][1].off = 0}
        Nth(n) == CHOOSE i \in keep : Cardinality({j \in keep : j < i}) = n - 1
    IN  [n \in 1..Cardinality(keep) |-> st[Nth(n)]]

\* lines 83-85: the account's storage as (FieldElement, FieldElement) pairs
AccountStoragePairs(kakarot_account) == kakarot_account.storage

\* FixedSlots giving the owner slot to both account types
FixedSlotsOwnerForAll(b, account_type) ==
    << <<get_storage_var_address("_implementation", << >>),
         IF account_type = "Contract" THEN b.contract_account_class_hash ELSE b.eoa_class_hash>>,
       <<get_storage_var_address("Ownable_owner", << >>), b.kakarot_address>>,
       <<get_storage_var_address("kakarot_address", << >>), b.kakarot_address>> >>

\* lines 87-99: the implementation, owner and kakarot_address slots
FixedSlots(b, account_type) ==
    (IF account_type = "Contract"
     THEN << <<get_storage_var_address("_implementation", << >>), b.contract_account_class_hash>>,
             <<get_storage_var_address("Ownable_owner", << >>), b.kakarot_address>> >>
     ELSE << <<get_storage_var_address("_implementation", << >>), b.eoa_class_hash>> >>)
    \o << <<get_storage_var_address("kakarot_address", << >>), b.kakarot_address>> >>

\* AllowanceSlots granting the low limb only
AllowanceSlotsLowOnly(b, sa) ==
    Insert(EmptyMap, get_storage_var_address("ERC20_allowances", <<sa, b.kakarot_address>>), U128_MAX)

\* lines 101-103: the two limbs of the allowance of the account sa toward the coordinator
AllowanceSlots(b, sa) ==
    LET key == get_storage_var_address("ERC20_allowances", <<sa, b.kakarot_address>>)
    IN  Insert(Insert(EmptyMap, key, U128_MAX), NextSlot(key), U128_MAX)

\* GenesisContract carrying the balance truncated to its low limb
GenesisContractLowBalance(b, info, pairs) ==
    [class |-> b.proxy_class_hash,
     balance |-> Trim(Pad(info.balance, U128Bytes)),
     nonce |-> "None",
     storage |-> Some(CollectPairs(pairs))]

\* lines 105-113: the contract of one allocation entry
GenesisContract(b, info, pairs) ==
    [class |-> b.proxy_class_hash,
     balance |-> Trim(Pad(info.balance, U256Bytes)),
     nonce |-> "None",
     storage |-> Some(CollectPairs(pairs))]

\* AllocEntry skipping an entry that fails instead of returning its error
AllocEntrySkipping(g, address, info) ==
    LET b == g.builder
        evm_address == AddressToFelt(address)
        starknet_addr == compute_starknet_address(b, evm_address)
        lookup == Insert(g.additional_kakarot_storage,
                         get_storage_var_address("evm_to_starknet_address", <<evm_address>>),
                         starknet_addr)
        account == DerivedAccount(address, info)
        pairs == AccountStoragePairs(account) \o FixedSlots(b, account.account_type)
    IN  IF info.fault = "derive" THEN g
        ELSE IF info.fault = "account" THEN [g EXCEPT !.additional_kakarot_storage = lookup]
        ELSE [g EXCEPT !.additional_kakarot_storage = lookup,
                       !.fee_token_storage = Extend(@, AllowanceSlots(b, starknet_addr)),
                       !.items = Append(@, <<starknet_addr, GenesisContract(b, info, pairs)>>)]

\* lines 69-114: the closure run on one allocation entry.  derive_ok and account_ok are
\* what compute_starknet_address and KakarotAccount::new answer for this entry
AllocEntry(g, address, info) ==
    LET b == g.builder
        evm_address == AddressToFelt(address)
        starknet_addr == compute_starknet_address(b, evm_address)
        lookup == Insert(g.additional_kakarot_storage,
                         get_storage_var_address("evm_to_starknet_address", <<evm_address>>),
                         starknet_addr)
        account == DerivedAccount(address, info)
        pairs == AccountStoragePairs(account) \o FixedSlots(b, account.account_type)
    IN  IF info.fault = "derive" THEN [g EXCEPT !.failed = TRUE]
        ELSE IF info.fault = "account"
        THEN [g EXCEPT !.failed = TRUE, !.additional_kakarot_storage = lookup]
        ELSE [g EXCEPT !.additional_kakarot_storage = lookup,
                       !.fee_token_storage = Extend(@, AllowanceSlots(b, starknet_addr)),
                       !.items = Append(@, <<starknet_addr, GenesisContract(b, info, pairs)>>)]

\* lines 117-130: build the base genesis and merge the accumulated state into it
FinishGenesis(g) ==
    LET b == g.builder
        genesis == b.base
        kakarot == genesis.contracts[b.kakarot_address]
        kakarot_storage == Extend(kakarot.storage.m, g.additional_kakarot_storage)
        with_lookup == [genesis.contracts EXCEPT ![b.kakarot_address].storage = Some(kakarot_storage)]
    IN  IF ~b.build_ok THEN [kind |-> "err", why |-> "build"]
        ELSE IF b.kakarot_address \notin DOMAIN genesis.contracts
        THEN [kind |-> "err", why |-> "Kakarot contract not found"]
        ELSE [kind |-> "ok",
              v |-> [contracts |-> Extend(with_lookup, CollectPairs(g.items)),
                     fee_token |-> [storage |-> Some(Extend(genesis.fee_token.storage.m,
                                                             g.fee_token_storage))]]]

-----------------------------------------------------------------------------
(* The materializer as a process: one step per allocation entry, in any order *)

MaxAlloc == 2

AddrC == <<12>> \o Zeros(AddressBytes - 2) \o <<3>>
GenesisAddresses == {AddrA, AddrB, AddrC}

\* a layout that already holds the three slots the materializer sets, with the
\* collaborator's own class hash and coordinator
OwnCoordinator == get_contract_address(<<0>>, <<2>>, << >>, << >>)

OwnLayout ==
    << <<get_storage_var_address("_implementation", << >>), <<1>> >>,
       <<get_storage_var_address("Ownable_owner", << >>), OwnCoordinator>>,
       <<get_storage_var_address("kakarot_address", << >>), OwnCoordinator>> >>

AllocInfos ==
    { [balance |-> U256_MAX, code |-> << >>, storage |-> << >>, layout |-> << >>, fault |-> "none"],
      [balance |-> <<1>> \o Zeros(U128Bytes), code |-> <<96, 0>>,
       storage |-> << <<NatToBytes(1), <<127>> \o Ones(U256Bytes - 1)>>,
                      <<<<1>> \o Zeros(U128Bytes), NatToBytes(5)>> >>,
       layout |-> << >>, fault |-> "none"],
      [balance |-> NatToBytes(3), code |-> << >>, storage |-> << >>, layout |-> OwnLayout, fault |-> "none"],
      [balance |-> NatToBytes(4), code |-> <<96, 0>>, storage |-> << >>, layout |-> OwnLayout,
       fault |-> "none"],
      [balance |-> << >>, code |-> << >>, storage |-> << >>, layout |-> << >>, fault |-> "derive"],
      [balance |-> NatToBytes(7), code |-> <<96, 0>>, storage |-> << >>, layout |-> << >>,
       fault |-> "account"] }

Allocs ==
    UNION { [S -> AllocInfos] : S \in {T \in SUBSET GenesisAddresses : Cardinality(T) <= MaxAlloc} }

KakarotContractAddress == get_contract_address(<<0>>, <<75>>, << >>, << >>)
DeployerContractAddress == get_contract_address(<<0>>, <<13>>, << >>, << >>)

BaseContract(storage) == [class |-> <<75>>, balance |-> << >>, nonce |-> "None", storage |-> storage]

BuilderWith(contracts, fee_storage, with_kakarot_ok, build_ok) ==
    [with_kakarot_ok |-> with_kakarot_ok, build_ok |-> build_ok,
     kakarot_address |-> KakarotContractAddress,
     proxy_class_hash |-> <<42>>, eoa_class_hash |-> <<224>>, contract_account_class_hash |-> <<202>>,
     base |-> [contracts |-> contracts, fee_token |-> [storage |-> fee_storage]]]

PlainContracts ==
    Insert(Insert(EmptyMap, KakarotContractAddress, BaseContract(None)),
           DeployerContractAddress, BaseContract(None))

\* a coordinator that already holds storage, one slot of it a stale reverse lookup
StoredContracts ==
    Insert(PlainContracts, KakarotContractAddress,
           BaseContract(Some(Insert(Insert(EmptyMap, get_storage_var_address("coinbase", << >>), <<9>>),
                                    get_storage_var_address("evm_to_starknet_address", <<AddressToFelt(AddrA)>>),
                                    << >>))))

\* a fee token that already holds storage, one slot of it an allowance of AddrA's account
StoredFeeToken ==
    Some(Insert(Insert(EmptyMap, get_storage_var_address("ERC20_name", << >>), <<69>>),
                get_storage_var_address("ERC20_allowances",
                    <<get_contract_address(AddressToFelt(AddrA), <<42>>, << >>, KakarotContractAddress),
                      KakarotContractAddress>>),
                << >>))

Builders ==
    { BuilderWith(PlainContracts, None, TRUE, TRUE),
      BuilderWith(StoredContracts, StoredFeeToken, TRUE, TRUE),
      BuilderWith(Insert(EmptyMap, DeployerContractAddress, BaseContract(None)), None, TRUE, TRUE),
      BuilderWith(PlainContracts, None, FALSE, TRUE),
      BuilderWith(PlainContracts, None, TRUE, FALSE) }

GenErr(why) == [kind |-> "err", why |-> why]

\* lines 54-65: with_kakarot, the cached addresses, the empty accumulators
GenesisBegin ==
    /\ phase = "genesis"
    /\ gen.pc = "idle"
    /\ \E alloc \in Allocs, b \in Builders :
        gen' = [pc |-> IF b.with_kakarot_ok THEN "alloc" ELSE "done",
                alloc |-> alloc, builder |-> b, remaining |-> DOMAIN alloc,
                items |-> << >>, additional_kakarot_storage |-> EmptyMap,
                fee_token_storage |-> EmptyMap, failed |-> FALSE,
                result |-> IF b.with_kakarot_ok THEN [kind |-> "none"] ELSE GenErr("with_kakarot")]
    /\ UNCHANGED <<env, overflow_checks, cells, phase, served, req, res, calls>>

\* lines 66-115: the next entry of the HashMap iteration; the first Err ends the call
ProcessEntry ==
    /\ gen.pc = "alloc"
    /\ \E a \in gen.remaining :
        LET g == AllocEntry(gen, a, gen.alloc[a])
        IN  gen' = IF g.failed
                   THEN [g EXCEPT !.pc = "done", !.result = GenErr(gen.alloc[a].fault)]
                   ELSE [g EXCEPT !.remaining = @ \ {a}]
    /\ UNCHANGED <<env, overflow_checks, cells, phase, served, req, res, calls>>

\* lines 117-130
GenesisFinish ==
    /\ gen.pc = "alloc"
    /\ gen.remaining = {}
    /\ gen' = [gen EXCEPT !.pc = "done", !.result = FinishGenesis(gen)]
    /\ UNCHANGED <<env, overflow_checks, cells, phase, served, req, res, calls>>

InitGenesis ==
    /\ env \in TxEnvs
    /\ overflow_checks = FALSE
    /\ cells = [n \in LazyCells |-> Uninit]
    /\ phase = "genesis"
    /\ served = 0
    /\ req = NoRequest
    /\ res = NoResult
    /\ calls = << >>
    /\ gen = GenIdle

NextGenesis == GenesisBegin \/ ProcessEntry \/ GenesisFinish

SpecGenesis == InitGenesis /\ [][NextGenesis]_vars

-----------------------------------------------------------------------------
(* Properties of the transaction translator (checked under SpecTx) *)

\* the number a short digit sequence stands for
RECURSIVE BytesToNat(_)
BytesToNat(b) == IF b = << >> THEN 0 ELSE BytesToNat(Front(b)) * 256 + b[Len(b)]

Translated == req.op = "to_starknet_transaction" /\ res.kind = "ok"

\* lo and hi are the low and the high 128 bits of v: both below 2^128, lo + hi * 2^128 = v
IsSplitOf(lo, hi, v) ==
    /\ FitsIn(lo, U128Bytes) /\ lo = Trim(lo)
    /\ FitsIn(hi, U128Bytes) /\ hi = Trim(hi)
    /\ Add(lo, ShlBytes(hi, U128Bytes)) = Trim(v)

\* C1: for every variant, chain id, signer and fee bound, the signature of a returned
\* descriptor has exactly 5 elements, the first four being r low, r high, s low, s high
C1_SignatureLayout ==
    Translated =>
        LET sig == res.v.signature
        IN  /\ Len(sig) = 5
            /\ IsSplitOf(sig[1], sig[2], req.transaction.signature.r)
            /\ IsSplitOf(sig[3], sig[4], req.transaction.signature.s)

\* a typed transaction whose r is 2^128 was translated: r low is 0 and r high is 1
C1_Witness ==
    /\ Translated
    /\ req.transaction.variant = "Eip2930"
    /\ req.transaction.signature.r = <<1>> \o Zeros(U128Bytes)
    /\ res.v.signature[1] = << >>
    /\ res.v.signature[2] = <<1>>

\* recovery_indicator + chain_id * 2 + 35, computed without any width
ExactLegacyV(odd_y_parity, chain_id) == Add(MulAdd(chain_id, 2, odd_y_parity), NatToBytes(35))

\* C2: the fifth signature element is recovery_indicator + chain_id * 2 + 35 for a Legacy
\* transaction, and the raw parity bit (0 or 1, whatever the chain id) for any other variant
C2_LastSignatureElement ==
    Translated =>
        LET last == res.v.signature[5]
            p == req.transaction.signature.odd_y_parity
        IN  IF req.transaction.variant = "Legacy"
            THEN last = ExactLegacyV(p, req.chain_id)
            ELSE last = NatToBytes(p) /\ p \in {0, 1}

\* C3: the calldata is [1, coordinator, selector, 0, L, L, b0, ..., b(L-1)] where L is the
\* length of the unsigned encoding and element 6 + i is byte i of it, zero-extended
C3_CalldataFraming ==
    Translated =>
        LET cd == res.v.calldata
            sd == encode_without_signature(req.transaction)
            L == Len(sd)
        IN  /\ Len(cd) = 6 + L
            /\ BytesToNat(cd[1]) = 1
            /\ cd[2] = FieldElementFromStr(env["KAKAROT_ADDRESS"]).v
            /\ cd[3] = Selector("eth_send_transaction")
            /\ BytesToNat(cd[4]) = 0
            /\ BytesToNat(cd[5]) = L
            /\ BytesToNat(cd[6]) = L
            /\ \A i \in 1..L : Len(cd[6 + i]) <= 1 /\ BytesToNat(cd[6 + i]) = sd[i]

\* a typed transaction with an encoding longer than 55 bytes was translated
C3_Witness ==
    /\ Translated
    /\ req.transaction.variant = "Eip1559"
    /\ Len(encode_without_signature(req.transaction)) > RlpShortMax
    /\ Len(res.v.calldata) > 6 + RlpShortMax

\* the translator got as far as the recovery value of a Legacy transaction
ReachedRecoveryValue ==
    /\ req.op = "to_starknet_transaction"
    /\ req.transaction.variant = "Legacy"
    /\ res.kind = "ok" \/ (res.kind = "panic" /\ res.at = "v")

\* C4: when recovery_indicator + chain_id * 2 + 35 does not fit 64 bits the caller gets
\* a conversion error, never a descriptor with a wrapped last signature element
C4_OverflowIsConversionError ==
    (ReachedRecoveryValue
     /\ ~FitsIn(ExactLegacyV(req.transaction.signature.odd_y_parity, req.chain_id), U64Bytes))
        => res.kind = "ConversionError"

-----------------------------------------------------------------------------
(* Properties of the running process (checked under Spec) *)

\* C5: a balance read whose call returns fewer than 32 bytes yields a ConversionError;
\* a number is returned only for a 32-byte return
C5_ShortReturnIsConversionError ==
    (req.op = "balance_of" /\ ~req.response.err) =>
        /\ Len(req.response.bytes) < U256Bytes => res.kind = "ConversionError"
        /\ res.kind = "ok" => Len(req.response.bytes) = U256Bytes

ConfigValid(n) == env_var_to_field_element(env, n).ok

\* C6: a missing or unparsable configuration constant fails the process during startup;
\* no request ever ends in a configuration failure
C6_ConfigFailsAtStartup ==
    /\ phase = "serving" => \A n \in ConfigVars : ConfigValid(n)
    /\ ~(res.kind = "panic" /\ res.at \in ConfigVars)

\* the request balance_of is expected to issue: from the zero address, gas_price 0,
\* gas 1,000,000 = 0x0f4240, value 0, input = 0x70a08231 and the account left-padded
\* with twelve zero bytes; neither data nor any other field set
ExpectedRequest(erc20, account) ==
    [from |-> [i \in 1..20 |-> 0], to |-> erc20, gas_price |-> << >>, gas |-> <<15, 66, 64>>,
     value |-> << >>, input |-> <<112, 160, 130, 49>> \o [i \in 1..12 |-> 0] \o account,
     data |-> "None", others |-> "None"]

SameInvocation(r1, r2) ==
    /\ r1.op = "balance_of" /\ r2.op = "balance_of"
    /\ r1.self_address = r2.self_address
    /\ r1.evm_address = r2.evm_address
    /\ r1.block_id = r2.block_id

\* C12: every balance_of invocation, whatever the call answers, issues exactly one call,
\* with the given block reference and the request from = zero address, to = the ERC20
\* contract, gas_price = 0, gas = 1,000,000, value = 0, input = ABI encoding of
\* balanceOf(account) and no other field set; it changes nothing else of the process,
\* and the same invocation made again issues the same call
C12_BalanceOfCallFrame ==
    /\ [](req.op = "balance_of" =>
            /\ Len(calls) = 1
            /\ calls[1].block_id = req.block_id
            /\ calls[1].request = ExpectedRequest(req.self_address, req.evm_address))
    /\ [][req'.op = "balance_of" =>
            /\ UNCHANGED <<env, overflow_checks, cells, phase, gen>>
            /\ SameInvocation(req, req') => calls' = calls]_vars

\* balanceOf(AddrA) was asked of the contract AddrB at the earliest block and the call
\* failed upstream: the one call was issued all the same
C12_Witness ==
    /\ req.op = "balance_of"
    /\ req.evm_address = AddrA /\ req.block_id = "earliest"
    /\ res.kind = "UpstreamCallError"
    /\ Len(calls) = 1
    /\ calls[1].request.to = AddrB
    /\ calls[1].request.input[36] = 1
    /\ Len(calls[1].request.input) = 36

-----------------------------------------------------------------------------
(* Properties of the genesis materializer (checked under SpecGenesis) *)

Materialized == gen.pc = "done" /\ gen.result.kind = "ok"

\* derive(source address): deployer = coordinator, salt = source address,
\* class hash = proxy class hash, no constructor calldata
Derived(a) ==
    get_contract_address(Trim(a), gen.builder.proxy_class_hash, << >>, gen.builder.kakarot_address)

StoragePairs(a) == {gen.alloc[a].storage[i] : i \in 1..Len(gen.alloc[a].storage)}

\* C7: after a successful materialization every storage pair (k, v) of every entry is
\* held by the entry's contract in the two adjacent slots of storage_(split(k)), whose
\* values low and high satisfy low + high * 2^128 = v
C7_StorageRecombines ==
    Materialized =>
        \A a \in DOMAIN gen.alloc : \A kv \in StoragePairs(a) :
            /\ Derived(a) \in DOMAIN gen.result.v.contracts
            /\ LET st == gen.result.v.contracts[Derived(a)].storage.m
               IN  \E key \in DOMAIN st :
                    /\ key.var = "storage_" /\ key.off = 0 /\ Len(key.args) = 2
                    /\ IsSplitOf(key.args[1], key.args[2], kv[1])
                    /\ NextSlot(key) \in DOMAIN st
                    /\ IsSplitOf(st[key], st[NextSlot(key)], kv[2])

\* a materialized contract holds a pair whose value has a non-zero high and low limb
C7_Witness ==
    /\ Materialized
    /\ \E a \in DOMAIN gen.alloc : \E kv \in StoragePairs(a) :
        LET st == gen.result.v.contracts[Derived(a)].storage.m
            key == get_storage_var_address("storage_", <<NatToBytes(1), << >> >>)
        IN  /\ kv[1] = NatToBytes(1)
            /\ st[key] = U128_MAX
            /\ st[NextSlot(key)] = <<127>> \o Ones(U128Bytes - 1)

\* C8: the output holds one contract per entry, at the derived address, of the proxy
\* class and with the entry's balance; it has as many contracts as the base state plus
\* the number of entries
C8_OneContractPerEntry ==
    Materialized =>
        /\ \A a \in DOMAIN gen.alloc :
            /\ Derived(a) \in DOMAIN gen.result.v.contracts
            /\ gen.result.v.contracts[Derived(a)].class = gen.builder.proxy_class_hash
            /\ gen.result.v.contracts[Derived(a)].balance = Trim(gen.alloc[a].balance)
        /\ Cardinality(DOMAIN gen.result.v.contracts)
             = Cardinality(DOMAIN gen.builder.base.contracts) + Cardinality(DOMAIN gen.alloc)

\* two entries were materialized, one of them with a balance above 2^128
C8_Witness ==
    /\ Materialized
    /\ Cardinality(DOMAIN gen.alloc) = 2
    /\ \E a \in DOMAIN gen.alloc :
        /\ gen.alloc[a].balance = U256_MAX
        /\ gen.result.v.contracts[Derived(a)].balance = U256_MAX

AllowanceKey(a) == get_storage_var_address("ERC20_allowances", <<Derived(a), gen.builder.kakarot_address>>)

IsMaxU128(x) == Add(x, NatToBytes(1)) = <<1>> \o Zeros(U128Bytes)

\* C9: the fee token holds, for every entry, 2^128 - 1 in the ERC20_allowances slot of
\* (derived address, coordinator) and in the slot after it; base entries that are no
\* such slot are unchanged
C9_MaximalAllowances ==
    Materialized =>
        LET fee == gen.result.v.fee_token.storage.m
            base == gen.builder.base.fee_token.storage.m
            granted == UNION {{AllowanceKey(a), NextSlot(AllowanceKey(a))} : a \in DOMAIN gen.alloc}
        IN  /\ \A k \in granted : k \in DOMAIN fee /\ IsMaxU128(fee[k])
            /\ \A k \in DOMAIN base \ granted : k \in DOMAIN fee /\ fee[k] = base[k]

\* a fee token with base storage was extended: the stale allowance of AddrA's account
\* is now maximal and the name slot is still there
C9_Witness ==
    /\ Materialized
    /\ gen.builder.base.fee_token.storage.some
    /\ AddrA \in DOMAIN gen.alloc
    /\ gen.builder.base.fee_token.storage.m[AllowanceKey(AddrA)] = << >>
    /\ gen.result.v.fee_token.storage.m[AllowanceKey(AddrA)] = U128_MAX
    /\ gen.result.v.fee_token.storage.m[get_storage_var_address("ERC20_name", << >>)] = <<69>>

LookupKey(a) == get_storage_var_address("evm_to_starknet_address", <<Trim(a)>>)

\* C10: if any entry fails the call returns an error and no genesis state, wherever the
\* failing entry stands; a returned genesis state has the reverse lookup, the allowance
\* and the account of every entry
C10_AllOrNothing ==
    gen.pc = "done" =>
        /\ (\E a \in DOMAIN gen.alloc : gen.alloc[a].fault # "none") =>
                gen.result.kind = "err" /\ DOMAIN gen.result = {"kind", "why"}
        /\ gen.result.kind = "ok" =>
            \A a \in DOMAIN gen.alloc :
                /\ Derived(a) \in DOMAIN gen.result.v.contracts
                /\ LookupKey(a) \in DOMAIN gen.result.v.contracts[gen.builder.kakarot_address].storage.m
                /\ AllowanceKey(a) \in DOMAIN gen.result.v.fee_token.storage.m

\* the second entry failed after the first had been processed: the accumulators hold
\* the first entry's state and the call returned an error
C10_Witness ==
    /\ gen.pc = "done"
    /\ gen.result.kind = "err"
    /\ Len(gen.items) = 1
    /\ DOMAIN gen.fee_token_storage # {}
    /\ \E a \in gen.remaining : gen.alloc[a].fault = "account"

ImplementationKey == get_storage_var_address("_implementation", << >>)
OwnerKey == get_storage_var_address("Ownable_owner", << >>)
CoordinatorKey == get_storage_var_address("kakarot_address", << >>)

AccountStorage(a) == gen.result.v.contracts[Derived(a)].storage.m
IsContractEntry(a) == gen.alloc[a].code # << >> \/ gen.alloc[a].storage # << >>
LayoutKeys(a) == {gen.alloc[a].layout[i][1] : i \in 1..Len(gen.alloc[a].layout)}

\* C11: in every materialized account the kakarot_address slot holds the coordinator
\* address; a Contract account has the contract-account class hash in its implementation
\* slot and the coordinator address in its Ownable_owner slot; an ExternallyOwned account
\* has the externally-owned-account class hash in its implementation slot and is given
\* no owner slot: it has one only where the collaborator's layout brought it, with the
\* collaborator's value
C11_FixedSlotsByType ==
    Materialized =>
        \A a \in DOMAIN gen.alloc :
            LET st == AccountStorage(a)
                b == gen.builder
            IN  /\ CoordinatorKey \in DOMAIN st /\ st[CoordinatorKey] = b.kakarot_address
                /\ ImplementationKey \in DOMAIN st
                /\ IsContractEntry(a) =>
                        /\ st[ImplementationKey] = b.contract_account_class_hash
                        /\ OwnerKey \in DOMAIN st /\ st[OwnerKey] = b.kakarot_address
                /\ ~IsContractEntry(a) =>
                        /\ st[ImplementationKey] = b.eoa_class_hash
                        /\ OwnerKey \in DOMAIN st <=> OwnerKey \in LayoutKeys(a)
                        /\ OwnerKey \in DOMAIN st => st[OwnerKey] = CollectPairs(gen.alloc[a].layout)[OwnerKey]

\* an ExternallyOwned account without an owner slot and a Contract account whose layout
\* came with its own three slots were materialized together
C11_Witness ==
    /\ Materialized
    /\ \E a, c \in DOMAIN gen.alloc :
        /\ ~IsContractEntry(a) /\ gen.alloc[a].layout = << >>
        /\ OwnerKey \notin DOMAIN AccountStorage(a)
        /\ AccountStorage(a)[ImplementationKey] = <<224>>
        /\ IsContractEntry(c) /\ gen.alloc[c].layout = OwnLayout
        /\ AccountStorage(c)[OwnerKey] = KakarotContractAddress
        /\ AccountStorage(c)[ImplementationKey] = <<202>>

====
